---- MODULE Spec2Model ----
(***************************************************************************)
(* Schema migration coordinator of SciSpike/repository-support:            *)
(* MongoSchemaMigrationRepositorySupport._ensureSchema running in several  *)
(* processes against one MongoDB database, with the SchemaVersion row kept *)
(* by MongoSchemaVersionRepository.                                        *)
(*                                                                         *)
(* A version string is modelled by the sequence of its numeric parts:      *)
(* "1.0.1" is <<1,0,1>>, the pre-release "1.0.1-1" is <<1,0,1,1>> and the  *)
(* string "1.0" (not a semantic version) is <<1,0>>.                       *)
(***************************************************************************)
EXTENDS Integers, Sequences, FiniteSets, TLC

(***************************************************************************)
(* Bounds                                                                  *)
(***************************************************************************)
MaxCalls == 2          \* _ensureSchema calls made by one process
MaxDirEntries == 2     \* entries of the migrations directory

Procs == {"A", "B"}    \* processes (host names)

Name == "test_collection"
SchemaVersionId == "TestRepo"
OtherId == "6f1c"        \* an id under which no row is ever stored
SchemaVersionsName == "schema_versions"
PkgName == "repository-support"

\* pkg.version of the releases that call _ensureSchema
Targets == { <<1, 0, 0>>, <<1, 0, 2>> }

\* what the migrations directory of a schema id may hold
Dir(n) == [name |-> n, isDirectory |-> TRUE]
File(n) == [name |-> n, isDirectory |-> FALSE]
DirCandidates ==
  { Dir(<<1, 0, 0, 1>>), Dir(<<1, 0, 0>>), Dir(<<1, 0, 1, 1>>), Dir(<<1, 0, 1>>),
    Dir(<<1, 0, 2>>), Dir(<<2, 0, 0>>), Dir(<<1, 0>>), File(<<1, 0, 1, 5>>) }

VARIABLES
  row,          \* the stored SchemaVersion document of the schema id, or Null
  collections,  \* names of the collections of the database
  indexed,      \* number of times ensureIndexesFn was applied to Name
  seeded,       \* number of times ensureSeedDataFn was applied to Name
  dirEntries,   \* fs.readdirSync(migrationsDir), in the order it lists them
  pc,           \* position of each process in _ensureSchema
  target,       \* pkg.version of the call
  sv,           \* local variable schemaVersion of the call
  seen,         \* schemaVersion as line 41 read it
  migrations,   \* local variable migrations of the call
  ran,          \* tags of the scripts the call has invoked, in order
  trace,        \* what the call has done to the store so far, in order
  branch,       \* branch the call took
  result,       \* what the call returned or threw
  calls,        \* number of calls a process has made
  args,         \* which of db, name, schemaVersionId the call was given
  lookup,       \* the last direct operation of a client on the repository
  handle,       \* local variable collection of the call: the handle it holds
  failed,       \* some call has ended with an error
  cleared,      \* the failed call whose stuck lock was last cleared by hand
  txn,          \* the running _transactionallyExecute: position, session, transaction
  inserting,    \* position and entity of each process in MongooseRepository.insert
  modelDoc      \* the documents of the Mongoose model, by _id

vars == << row, collections, indexed, seeded, dirEntries, pc, target, sv, seen,
           migrations, ran, trace, branch, result, calls, args, lookup,
           handle, failed, cleared, txn, inserting, modelDoc >>

(***************************************************************************)
(* semver                                                                  *)
(***************************************************************************)
RECURSIVE CompareIdentifiers(_, _)
CompareIdentifiers(a, b) ==
  IF a = <<>> /\ b = <<>> THEN 0
  ELSE IF a = <<>> THEN -1
  ELSE IF b = <<>> THEN 1
  ELSE IF Head(a) < Head(b) THEN -1
  ELSE IF Head(a) > Head(b) THEN 1
  ELSE CompareIdentifiers(Tail(a), Tail(b))

Valid(v) == Len(v) >= 3

CompareMain(a, b) == CompareIdentifiers(SubSeq(a, 1, 3), SubSeq(b, 1, 3))

ComparePre(a, b) ==
  LET pa == SubSeq(a, 4, Len(a))
      pb == SubSeq(b, 4, Len(b))
  IN  IF pa # <<>> /\ pb = <<>> THEN -1
      ELSE IF pa = <<>> /\ pb # <<>> THEN 1
      ELSE CompareIdentifiers(pa, pb)

Compare(a, b) ==
  IF CompareMain(a, b) # 0 THEN CompareMain(a, b) ELSE ComparePre(a, b)

SemverLt(a, b) == Compare(a, b) < 0
\* mutant of SemverGte: equal versions do not count as current
SemverGteStrict(a, b) == Compare(a, b) > 0

SemverGte(a, b) == Compare(a, b) >= 0

RECURSIVE Insert(_, _)
Insert(x, s) ==
  IF s = <<>> THEN <<x>>
  ELSE IF Compare(x, Head(s)) < 0 THEN <<x>> \o s
  ELSE <<Head(s)>> \o Insert(x, Tail(s))

\* mutant of Sort: the names stay in directory order
SortOmitted(s) == s

RECURSIVE Sort(_)
Sort(s) == IF s = <<>> THEN <<>> ELSE Insert(Head(s), Sort(Tail(s)))

(***************************************************************************)
(* SchemaVersion entity and its repository                                 *)
(***************************************************************************)
Null == [kind |-> "null"]
Undefined == [kind |-> "undefined"]
False == [kind |-> "false"]

FormatLock(version, hostname) ==
  [kind |-> "token", name |-> PkgName, version |-> version, host |-> hostname]

Truthy(v) == v.kind = "token"

NewSchemaVersion(semver) == [semver |-> semver, locked |-> Undefined]

\* mutant of WithLocked: the entity is handed back as it was
WithLockedIgnored(entity, locked) == entity

WithLocked(entity, locked) == [entity EXCEPT !.locked = locked]

\* mutant of Gte: gt in place of gte
GteStrict(entity, version) == Compare(entity.semver, version) > 0

Gte(entity, version) == SemverGte(entity.semver, version)
Lt(entity, version) == SemverLt(entity.semver, version)

RemoveNullishesIn(o) == [k \in {f \in DOMAIN o : o[f] # Undefined} |-> o[k]]

\* mutant of EntityToDoc: the _locked field is left out of the document
EntityToDocWithoutLocked(entity) ==
  RemoveNullishesIn([_semver |-> entity.semver])

EntityToDoc(entity) ==
  RemoveNullishesIn([_semver |-> entity.semver, _locked |-> entity.locked])

DocField(doc, k) == IF k \in DOMAIN doc THEN doc[k] ELSE Undefined

DocToEntity(doc) ==
  IF doc = Null THEN Null
  ELSE [semver |-> DocField(doc, "_semver"), locked |-> DocField(doc, "_locked")]

\* updateOne({_id}, {$set: object}, {upsert: true})
UpdateOneSet(stored, object) ==
  IF stored = Null THEN object
  ELSE [k \in DOMAIN stored \cup DOMAIN object |->
          IF k \in DOMAIN object THEN object[k] ELSE stored[k]]

Upsert(stored, entity) == UpdateOneSet(stored, EntityToDoc(entity))

\* ERROR_CODES.DUPLICATE_KEY
DUPLICATE_KEY == 11000

\* collection.insertOne(object): the document is stored, or the store
\* rejects it with its duplicate-key error and keeps what it holds
InsertOne(stored, object) ==
  IF stored = Null
  THEN [stored |-> object, error |-> Null]
  ELSE [stored |-> stored, error |-> [name |-> "MongoError", code |-> DUPLICATE_KEY]]

\* mutant of TranslateError: the store's error is passed on as it came
TranslateErrorUntranslated(e) == [kind |-> "threw", error |-> e.name, cause |-> e]

\* _translateError
TranslateError(e) ==
  IF e.code = DUPLICATE_KEY
  THEN [kind |-> "threw", error |-> "UniqueKeyViolationError", cause |-> e]
  ELSE [kind |-> "threw", error |-> e.name, cause |-> e]

\* _insert(object) through _tryDbOp: what is stored afterwards and what the
\* caller gets
RepoInsert(stored, object) ==
  LET outcome == InsertOne(stored, object) IN
    [stored |-> outcome.stored,
     result |-> IF outcome.error = Null THEN object
                ELSE TranslateError(outcome.error)]

\* collection.findOne({ _id: id }) on the collection holding the one row
FindOne(stored, id) == IF id = SchemaVersionId THEN stored ELSE Null

FindById(stored) == DocToEntity(stored)

\* findById({ id }), lines 70-72
RepoFindById(stored, id) == DocToEntity(FindOne(stored, id))

\* mutant of RepoGetById: a missing row is handed back as null
RepoGetByIdReturningNull(stored, id) == RepoFindById(stored, id)

\* getById({ id }), lines 74-79
RepoGetById(stored, id) ==
  IF RepoFindById(stored, id) = Null
  THEN [kind |-> "threw", error |-> "ObjectNotFoundError"]
  ELSE RepoFindById(stored, id)

(***************************************************************************)
(* _ensureSchema                                                           *)
(***************************************************************************)
Quiescent == {"idle", "done", "threw"}

NoResult == [kind |-> "none"]
Returned(named) == [kind |-> "returned", collection |-> named]
Threw(error) == [kind |-> "threw", error |-> error]

\* mutant of Pending: no upper bound on the tag
PendingNoUpperBound(entries, schemaVersion, version) ==
  LET Keep(entry) == /\ entry.isDirectory
                     /\ Valid(entry.name)
                     /\ Lt(schemaVersion, entry.name)
      kept == SelectSeq(entries, Keep)
  IN  Sort([i \in 1..Len(kept) |-> kept[i].name])

\* mutant of Pending: no lower bound on the tag
PendingNoLowerBound(entries, schemaVersion, version) ==
  LET Keep(entry) == /\ entry.isDirectory
                     /\ Valid(entry.name)
                     /\ SemverLt(entry.name, version)
      kept == SelectSeq(entries, Keep)
  IN  Sort([i \in 1..Len(kept) |-> kept[i].name])

\* lines 76-86: the names of the pending migrations, sorted
Pending(entries, schemaVersion, version) ==
  LET Keep(entry) == /\ entry.isDirectory
                     /\ Valid(entry.name)
                     /\ Lt(schemaVersion, entry.name)
                     /\ SemverLt(entry.name, version)
      kept == SelectSeq(entries, Keep)
  IN  Sort([i \in 1..Len(kept) |-> kept[i].name])

RECURSIVE Listings(_)
Listings(n) ==
  IF n = 0 THEN { <<>> }
  ELSE LET shorter == Listings(n - 1)
       IN  shorter \cup { Append(s, e) : s \in shorter, e \in DirCandidates }

Distinct(s) == \A i, j \in 1..Len(s) : i # j => s[i] # s[j]

\* every listing of at most MaxDirEntries entries with distinct names
AllListings == { s \in Listings(MaxDirEntries) : Distinct(s) }

\* the listings the runs of several processes start from
SomeListings ==
  { <<>>,
    << Dir(<<1, 0, 1>>), Dir(<<1, 0, 1, 1>>) >>,
    << Dir(<<1, 0, 1>>), Dir(<<1, 0, 0, 1>>) >> }

\* a store on which nothing has run
Fresh == [row |-> Null, collections |-> {}, indexed |-> 0, seeded |-> 0]

\* a store that holds the named collection but no SchemaVersion row
Legacy == [row |-> Null, collections |-> {Name}, indexed |-> 0, seeded |-> 0]

\* a store on which one call has bootstrapped the schema at the version
Bootstrapped(version) ==
  [row |-> Upsert(Null, WithLocked(NewSchemaVersion(version), False)),
   collections |-> {SchemaVersionsName, Name},
   indexed |-> 1,
   seeded |-> 1]

AllArgs == [db |-> TRUE, name |-> TRUE, schemaVersionId |-> TRUE]

NoLookup == [op |-> "none"]

\* db.collection(name), the collection createCollection resolves to, and
\* the value a migration script returns
LookupHandle == [kind |-> "lookup", name |-> Name]
CreatedHandle == [kind |-> "created", name |-> Name]
ScriptHandle(migration) == [kind |-> "script", by |-> migration]

\* _transactionallyExecute before it is called
NoTransaction ==
  [pc |-> "idle", session |-> "undefined", transaction |-> "none", ended |-> 0,
   fn |-> "none", thrown |-> FALSE, calls |-> 0]

\* MongooseRepository.insert before it is called
NotInserting == [pc |-> "idle", entity |-> Null, error |-> Null, calls |-> 0]

\* the _ids of the documents of the Mongoose model
ModelIds == {"e1", "e2"}

InitWith(stores, listings) ==
  /\ \E store \in stores :
       /\ row = store.row
       /\ collections = store.collections
       /\ indexed = store.indexed
       /\ seeded = store.seeded
  /\ dirEntries \in listings
  /\ pc = [p \in Procs |-> "idle"]
  /\ target = [p \in Procs |-> <<1, 0, 0>>]
  /\ sv = [p \in Procs |-> Null]
  /\ seen = [p \in Procs |-> Null]
  /\ migrations = [p \in Procs |-> <<>>]
  /\ ran = [p \in Procs |-> <<>>]
  /\ trace = [p \in Procs |-> <<>>]
  /\ branch = [p \in Procs |-> "none"]
  /\ result = [p \in Procs |-> NoResult]
  /\ calls = [p \in Procs |-> 0]
  /\ args = [p \in Procs |-> AllArgs]
  /\ lookup = NoLookup
  /\ handle = [p \in Procs |-> Undefined]
  /\ failed = FALSE
  /\ cleared = Null
  /\ txn = NoTransaction
  /\ inserting = [p \in Procs |-> NotInserting]
  /\ modelDoc = [id \in ModelIds |-> Null]

Init == InitWith({Fresh}, SomeListings)

InitSeq == InitWith({Fresh, Legacy}, SomeListings)

InitSolo == InitWith({Fresh, Bootstrapped(<<1, 0, 0>>)}, AllListings)

\* mutant of Validate: the schema document id is not checked
ValidateWithoutId(given) ==
  IF ~given.db THEN "db required"
  ELSE IF ~given.name THEN "name required"
  ELSE "ok"

\* lines 34-36
Validate(given) ==
  IF ~given.db THEN "db required"
  ELSE IF ~given.name THEN "name required"
  ELSE IF ~given.schemaVersionId THEN "schema document id required"
  ELSE "ok"

\* lines 24-36: entry and argument validation
Call(p) ==
  /\ pc[p] \in Quiescent
  /\ calls[p] < MaxCalls
  /\ \E version \in Targets,
        given \in [db : BOOLEAN, name : BOOLEAN, schemaVersionId : BOOLEAN] :
       /\ args' = [args EXCEPT ![p] = given]
       /\ calls' = [calls EXCEPT ![p] = @ + 1]
       /\ target' = [target EXCEPT ![p] = version]
       /\ sv' = [sv EXCEPT ![p] = Null]
       /\ seen' = [seen EXCEPT ![p] = Null]
       /\ migrations' = [migrations EXCEPT ![p] = <<>>]
       /\ ran' = [ran EXCEPT ![p] = <<>>]
       /\ trace' = [trace EXCEPT ![p] = <<>>]
       /\ branch' = [branch EXCEPT ![p] = "none"]
       /\ IF Validate(given) = "ok"
          THEN /\ pc' = [pc EXCEPT ![p] = "ensureSchema"]
               /\ result' = [result EXCEPT ![p] = NoResult]
          ELSE /\ pc' = [pc EXCEPT ![p] = "threw"]
               /\ result' = [result EXCEPT ![p] = Threw("MissingRequiredArgumentError")]
       /\ handle' = [handle EXCEPT ![p] = Undefined]
       /\ failed' = (failed \/ Validate(given) # "ok")
  /\ UNCHANGED << row, collections, indexed, seeded, dirEntries, lookup,
                  cleared, txn, inserting, modelDoc >>

\* line 38, MongoSchemaVersionRepository.ensureSchema line 23: db.collections()
EnsureSchemaList(p) ==
  /\ pc[p] = "ensureSchema"
  /\ pc' = [pc EXCEPT ![p] = IF SchemaVersionsName \in collections
                              THEN "findById" ELSE "createSchemaVersions"]
  /\ UNCHANGED << row, collections, indexed, seeded, dirEntries, target, sv,
                  seen, migrations, ran, trace, branch, result, calls, args,
                  lookup, handle, failed,
                  cleared, txn, inserting, modelDoc >>

\* db.createCollection(name): creates the collection; on a collection that
\* already exists the driver either hands back the existing one or fails
CreateCollection(p, name, next) ==
  \E outcome \in IF name \in collections
                 THEN {"existing", "NamespaceExists"} ELSE {"created"} :
    /\ collections' = collections \cup {name}
    /\ IF outcome = "NamespaceExists"
       THEN /\ pc' = [pc EXCEPT ![p] = "threw"]
            /\ result' = [result EXCEPT ![p] = Threw("NamespaceExists")]
       ELSE /\ pc' = [pc EXCEPT ![p] = next]
            /\ UNCHANGED result
    /\ failed' = (failed \/ outcome = "NamespaceExists")

\* MongoSchemaVersionRepository.ensureSchema line 25
EnsureSchemaCreate(p) ==
  /\ pc[p] = "createSchemaVersions"
  /\ CreateCollection(p, SchemaVersionsName, "findById")
  /\ UNCHANGED trace
  /\ UNCHANGED << row, indexed, seeded, dirEntries, target, sv, seen,
                  migrations, ran, trace, branch, calls, args,
                  lookup, handle,
                  cleared, txn, inserting, modelDoc >>

\* mutant of BranchOf: a stale row is migrated whether locked or not
BranchOfIgnoringLock(schemaVersion, version) ==
  IF schemaVersion = Null THEN "bootstrap"
  ELSE IF Gte(schemaVersion, version) THEN "current"
  ELSE "migrate"

\* lines 43, 68, 72: the branch taken on the row that was read
BranchOf(schemaVersion, version) ==
  IF schemaVersion = Null THEN "bootstrap"
  ELSE IF Gte(schemaVersion, version) THEN "current"
  ELSE IF ~Truthy(schemaVersion.locked) THEN "migrate"
  ELSE "wait"

\* line 41 and the branch taken on what was read, up to the next await
FindRow(p) ==
  /\ pc[p] = "findById"
  /\ LET schemaVersion == FindById(row)
         taken == BranchOf(schemaVersion, target[p])
         token == FormatLock(target[p], p)
         pending == IF taken = "migrate"
                    THEN Pending(dirEntries, schemaVersion, target[p])
                    ELSE <<>>
     IN  /\ seen' = [seen EXCEPT ![p] = schemaVersion]
         /\ branch' = [branch EXCEPT ![p] = taken]
         /\ migrations' = [migrations EXCEPT ![p] = pending]
         /\ sv' = [sv EXCEPT ![p] =
                     IF taken = "bootstrap"                      \* lines 44-47
                     THEN WithLocked(NewSchemaVersion(target[p]), token)
                     ELSE IF taken = "migrate" /\ pending # <<>> \* lines 88-89
                     THEN WithLocked(schemaVersion, token)
                     ELSE schemaVersion]
         /\ pc' = [pc EXCEPT ![p] =
                     IF taken = "bootstrap" THEN "upsertLocked"
                     ELSE IF taken = "current" THEN "done"       \* line 69
                     ELSE IF taken = "wait" THEN "delay"         \* line 116
                     ELSE IF pending # <<>> THEN "upsertLocked"
                     ELSE "ensureIndexes"]
         /\ result' = [result EXCEPT ![p] =
                         IF taken = "current" THEN Returned(Name) ELSE @]
         /\ handle' = [handle EXCEPT ![p] =
                         IF taken = "current" THEN LookupHandle      \* line 69
                         ELSE IF taken = "migrate" /\ pending = <<>>
                         THEN LookupHandle                 \* lines 101-103
                         ELSE @]
  /\ UNCHANGED << row, collections, indexed, seeded, dirEntries, target, ran,
                  trace, calls, args,
                  lookup, failed,
                  cleared, txn, inserting, modelDoc >>

\* mutant of UpsertLocked: the lock token is set but not persisted
UpsertLockedNotPersisted(p) ==
  /\ pc[p] = "upsertLocked"
  /\ trace' = [trace EXCEPT ![p] = Append(@, "lock")]
  /\ pc' = [pc EXCEPT ![p] = IF branch[p] = "bootstrap"
                              THEN "collections" ELSE "migrate"]
  /\ UNCHANGED << row, collections, indexed, seeded, dirEntries, target, sv,
                  seen, migrations, ran, branch, result, calls, args,
                  lookup, handle, failed,
                  cleared, txn, inserting, modelDoc >>

\* lines 49 and 90: persist the row with the lock token
UpsertLocked(p) ==
  /\ pc[p] = "upsertLocked"
  /\ row' = Upsert(row, sv[p])
  /\ trace' = [trace EXCEPT ![p] = Append(@, "lock")]
  /\ pc' = [pc EXCEPT ![p] = IF branch[p] = "bootstrap"
                              THEN "collections" ELSE "migrate"]
  /\ UNCHANGED << collections, indexed, seeded, dirEntries, target, sv, seen,
                  migrations, ran, branch, result, calls, args,
                  lookup, handle, failed,
                  cleared, txn, inserting, modelDoc >>

\* mutant of BootList: the collection is created without looking for it
BootListAlwaysCreate(p) ==
  /\ pc[p] = "collections"
  /\ pc' = [pc EXCEPT ![p] = "createCollection"]
  /\ UNCHANGED << row, collections, indexed, seeded, dirEntries, target, sv,
                  seen, migrations, ran, trace, branch, result, calls, args,
                  lookup, handle, failed,
                  cleared, txn, inserting, modelDoc >>

\* line 51: does the named collection exist
BootList(p) ==
  /\ pc[p] = "collections"
  /\ pc' = [pc EXCEPT ![p] = IF Name \in collections
                              THEN "ensureIndexes" ELSE "createCollection"]
  /\ handle' = [handle EXCEPT ![p] = IF Name \in collections           \* line 52
                                      THEN LookupHandle ELSE @]
  /\ UNCHANGED << row, collections, indexed, seeded, dirEntries, target, sv,
                  seen, migrations, ran, trace, branch, result, calls, args,
                  lookup, failed,
                  cleared, txn, inserting, modelDoc >>

\* line 59
BootCreate(p) ==
  /\ pc[p] = "createCollection"
  /\ CreateCollection(p, Name, "ensureIndexes")
  /\ trace' = [trace EXCEPT ![p] = Append(@, "create")]
  /\ handle' = [handle EXCEPT ![p] = CreatedHandle]
  /\ UNCHANGED << row, indexed, seeded, dirEntries, target, sv, seen,
                  migrations, ran, branch, calls, args,
                  lookup,
                  cleared, txn, inserting, modelDoc >>

\* mutant of HandleAfter: no lookup when the last script returned nothing
HandleAfterWithoutLookup(returned, last) == returned

\* line 96 and, after the last script, lines 101-103: the collection the
\* call holds once a script has returned
HandleAfter(returned, last) ==
  IF last /\ returned = Undefined THEN LookupHandle ELSE returned

\* lines 94-97: the next migration script; it returns the collection, or
\* sets semver to its tag on the shared schemaVersion and upserts it before
\* returning the collection, or throws
Migrate(p) ==
  /\ pc[p] = "migrate"
  /\ Len(ran[p]) < Len(migrations[p])
  /\ LET migration == migrations[p][Len(ran[p]) + 1] IN
     \E behaviour \in {"return", "bump", "throw"},
        returned \in {ScriptHandle(migration), Undefined} :
       /\ behaviour = "throw" => returned = Undefined
       /\ ran' = [ran EXCEPT ![p] = Append(@, migration)]
       /\ failed' = (failed \/ behaviour = "throw")
       /\ handle' = [handle EXCEPT ![p] =
                       IF behaviour = "throw" THEN @
                       ELSE HandleAfter(returned,
                                        Len(ran'[p]) = Len(migrations[p]))]
       /\ trace' = [trace EXCEPT ![p] = Append(@, "script")]
       /\ IF behaviour = "bump"
          THEN /\ sv' = [sv EXCEPT ![p].semver = migration]
               /\ row' = Upsert(row, sv'[p])
          ELSE UNCHANGED << sv, row >>
       /\ IF behaviour = "throw"
          THEN /\ pc' = [pc EXCEPT ![p] = "threw"]
               /\ result' = [result EXCEPT ![p] = Threw("MigrationError")]
          ELSE /\ pc' = [pc EXCEPT ![p] = IF Len(ran'[p]) = Len(migrations[p])
                                           THEN "ensureIndexes" ELSE "migrate"]
               /\ UNCHANGED result
  /\ UNCHANGED << collections, indexed, seeded, dirEntries, target, seen,
                  migrations, branch, calls, args,
                  lookup,
                  cleared, txn, inserting, modelDoc >>

\* mutant of EnsureIndexes: ensureIndexesFn is passed over
EnsureIndexesSkipped(p) ==
  /\ pc[p] = "ensureIndexes"
  /\ pc' = [pc EXCEPT ![p] = "ensureSeedData"]
  /\ UNCHANGED << row, collections, indexed, seeded, dirEntries, target, sv,
                  seen, migrations, ran, trace, branch, result, calls, args,
                  lookup, handle, failed,
                  cleared, txn, inserting, modelDoc >>

\* lines 53, 61, 105
EnsureIndexes(p) ==
  /\ pc[p] = "ensureIndexes"
  /\ indexed' = indexed + 1
  /\ trace' = [trace EXCEPT ![p] = Append(@, "index")]
  /\ pc' = [pc EXCEPT ![p] = "ensureSeedData"]
  /\ UNCHANGED << row, collections, seeded, dirEntries, target, sv, seen,
                  migrations, ran, branch, result, calls, args,
                  lookup, handle, failed,
                  cleared, txn, inserting, modelDoc >>

\* lines 54, 62, 106
EnsureSeedData(p) ==
  /\ pc[p] = "ensureSeedData"
  /\ seeded' = seeded + 1
  /\ trace' = [trace EXCEPT ![p] = Append(@, "seed")]
  /\ pc' = [pc EXCEPT ![p] = "upsertUnlocked"]
  /\ UNCHANGED << row, collections, indexed, dirEntries, target, sv, seen,
                  migrations, ran, branch, result, calls, args,
                  lookup, handle, failed,
                  cleared, txn, inserting, modelDoc >>

\* mutant of UpsertUnlocked: the release also sets semver to the target
UpsertUnlockedAtTarget(p) ==
  /\ pc[p] = "upsertUnlocked"
  /\ sv' = [sv EXCEPT ![p] = [WithLocked(@, False) EXCEPT !.semver = target[p]]]
  /\ row' = Upsert(row, sv'[p])
  /\ pc' = [pc EXCEPT ![p] = "done"]
  /\ result' = [result EXCEPT ![p] = Returned(Name)]
  /\ trace' = [trace EXCEPT ![p] = Append(@, "unlock")]
  /\ UNCHANGED << collections, indexed, seeded, dirEntries, target, seen,
                  migrations, ran, branch, calls, args,
                  lookup, handle, failed,
                  cleared, txn, inserting, modelDoc >>

\* mutant of UpsertUnlocked: returns without persisting the release
UpsertUnlockedNotPersisted(p) ==
  /\ pc[p] = "upsertUnlocked"
  /\ sv' = [sv EXCEPT ![p] = WithLocked(@, False)]
  /\ pc' = [pc EXCEPT ![p] = "done"]
  /\ result' = [result EXCEPT ![p] = Returned(Name)]
  /\ trace' = [trace EXCEPT ![p] = Append(@, "unlock")]
  /\ UNCHANGED << row, collections, indexed, seeded, dirEntries, target, seen,
                  migrations, ran, branch, calls, args,
                  lookup, handle, failed,
                  cleared, txn, inserting, modelDoc >>

\* lines 55-56, 64-65, 108-110: release the lock and return
UpsertUnlocked(p) ==
  /\ pc[p] = "upsertUnlocked"
  /\ sv' = [sv EXCEPT ![p] = WithLocked(@, False)]
  /\ row' = Upsert(row, sv'[p])
  /\ pc' = [pc EXCEPT ![p] = "done"]
  /\ result' = [result EXCEPT ![p] = Returned(Name)]
  /\ trace' = [trace EXCEPT ![p] = Append(@, "unlock")]
  /\ UNCHANGED << collections, indexed, seeded, dirEntries, target, seen,
                  migrations, ran, branch, calls, args,
                  lookup, handle, failed,
                  cleared, txn, inserting, modelDoc >>

\* mutant of Poll: the loop pauses and tests the schemaVersion it holds
\* without reading the row again
PollWithoutRead(p) ==
  /\ pc[p] = "delay"
  /\ IF ~Truthy(sv[p].locked)
     THEN /\ pc' = [pc EXCEPT ![p] = "done"]
          /\ result' = [result EXCEPT ![p] = Returned(Name)]
          /\ handle' = [handle EXCEPT ![p] = LookupHandle]
     ELSE UNCHANGED << pc, result, handle >>
  /\ UNCHANGED << row, collections, indexed, seeded, dirEntries, target, sv,
                  seen, migrations, ran, trace, branch, calls, args, lookup,
                  failed,
                  cleared, txn, inserting, modelDoc >>

\* mutant of Poll: the wait ends only on a row that is unlocked and at or
\* above the target
PollRecheckingSemver(p) ==
  /\ pc[p] = "delay"
  /\ LET schemaVersion == FindById(row) IN
       /\ sv' = [sv EXCEPT ![p] = schemaVersion]
       /\ IF schemaVersion = Null
          THEN /\ pc' = [pc EXCEPT ![p] = "threw"]
               /\ result' = [result EXCEPT ![p] = Threw("TypeError")]
               /\ failed' = TRUE
               /\ UNCHANGED handle
          ELSE IF ~Truthy(schemaVersion.locked) /\ Gte(schemaVersion, target[p])
          THEN /\ pc' = [pc EXCEPT ![p] = "done"]
               /\ result' = [result EXCEPT ![p] = Returned(Name)]
               /\ handle' = [handle EXCEPT ![p] = LookupHandle]
               /\ UNCHANGED failed
          ELSE UNCHANGED << pc, result, handle, failed >>
  /\ UNCHANGED << row, collections, indexed, seeded, dirEntries, target, seen,
                  migrations, ran, trace, branch, calls, args, lookup,
                  cleared, txn, inserting, modelDoc >>

\* mutant of Poll: the wait ends after one pause whatever the row shows
PollOnce(p) ==
  /\ pc[p] = "delay"
  /\ sv' = [sv EXCEPT ![p] = FindById(row)]
  /\ pc' = [pc EXCEPT ![p] = "done"]
  /\ result' = [result EXCEPT ![p] = Returned(Name)]
  /\ UNCHANGED << row, collections, indexed, seeded, dirEntries, target, seen,
                  migrations, ran, trace, branch, calls, args,
                  lookup, handle, failed,
                  cleared, txn, inserting, modelDoc >>

\* lines 116-126: one cycle of the wait loop
Poll(p) ==
  /\ pc[p] = "delay"
  /\ LET schemaVersion == FindById(row) IN
       /\ sv' = [sv EXCEPT ![p] = schemaVersion]
       /\ IF schemaVersion = Null
          THEN /\ pc' = [pc EXCEPT ![p] = "threw"]
               /\ result' = [result EXCEPT ![p] = Threw("TypeError")]
               /\ failed' = TRUE
               /\ UNCHANGED handle
          ELSE IF ~Truthy(schemaVersion.locked)
          THEN /\ pc' = [pc EXCEPT ![p] = "done"]
               /\ result' = [result EXCEPT ![p] = Returned(Name)]
               /\ handle' = [handle EXCEPT ![p] = LookupHandle]   \* line 121
               /\ UNCHANGED failed
          ELSE UNCHANGED << pc, result, handle, failed >>
  /\ UNCHANGED << row, collections, indexed, seeded, dirEntries, target, seen,
                  migrations, ran, trace, branch, calls, args,
                  lookup,
                  cleared, txn, inserting, modelDoc >>

Step(p) ==
  \/ EnsureSchemaList(p)
  \/ EnsureSchemaCreate(p)
  \/ FindRow(p)
  \/ UpsertLocked(p)
  \/ BootList(p)
  \/ BootCreate(p)
  \/ Migrate(p)
  \/ EnsureIndexes(p)
  \/ EnsureSeedData(p)
  \/ UpsertUnlocked(p)
  \/ Poll(p)

Next == \E p \in Procs : Call(p) \/ Step(p)

Spec == Init /\ [][Next]_vars

\* concurrent calls in which nothing fails: every argument is given, no
\* script throws and no store operation is rejected
CallFair(p) == Call(p) /\ ~failed'

StepFair(p) == Step(p) /\ ~failed'

InitFair ==
  InitWith({Fresh, Bootstrapped(<<1, 0, 0>>)},
           {<< Dir(<<1, 0, 1>>), Dir(<<1, 0, 0, 1>>) >>})

NextFair == \E p \in Procs : CallFair(p) \/ StepFair(p)

\* every call in progress keeps taking its steps: the event loop resumes a
\* call whose awaited operation or pause has completed
Fairness == \A p \in Procs : WF_vars(StepFair(p))

SpecFair == InitFair /\ [][NextFair]_vars /\ Fairness

\* calls that do not overlap: a call starts only when no call is in progress
CallSeq(p) ==
  /\ \A q \in Procs : pc[q] \in Quiescent
  /\ Call(p)

NextSeq == \E p \in Procs : CallSeq(p) \/ Step(p)

SpecSeq == InitSeq /\ [][NextSeq]_vars

\* the calls of one process, over every listing of the migrations directory
Solo == "A"

NextSolo == Call(Solo) \/ Step(Solo)

SpecSolo == InitSolo /\ [][NextSolo]_vars

\* a client of the repository looks a row up directly
DirectFindById ==
  /\ \E id \in {SchemaVersionId, OtherId} :
       lookup' = [op |-> "findById", id |-> id, stored |-> row,
                  result |-> RepoFindById(row, id)]
  /\ UNCHANGED << row, collections, indexed, seeded, dirEntries, pc, target,
                  sv, seen, migrations, ran, trace, branch, result, calls,
                  args, handle, failed,
                  cleared, txn, inserting, modelDoc >>

DirectGetById ==
  /\ \E id \in {SchemaVersionId, OtherId} :
       lookup' = [op |-> "getById", id |-> id, stored |-> row,
                  result |-> RepoGetById(row, id)]
  /\ UNCHANGED << row, collections, indexed, seeded, dirEntries, pc, target,
                  sv, seen, migrations, ran, trace, branch, result, calls,
                  args, handle, failed,
                  cleared, txn, inserting, modelDoc >>

\* the SchemaVersion entities a client of the repository writes
ClientLocks == {Undefined, False, FormatLock(<<1, 0, 0>>, "client")}

ClientEntities ==
  {WithLocked(NewSchemaVersion(<<1, 0, 1>>), locked) : locked \in ClientLocks}

\* a client upserts a SchemaVersion through the repository
DirectUpsert ==
  /\ SchemaVersionsName \in collections
  /\ \E entity \in ClientEntities :
       /\ row' = Upsert(row, entity)
       /\ lookup' = [op |-> "upsert", id |-> SchemaVersionId,
                     entity |-> entity, result |-> entity]
  /\ UNCHANGED << collections, indexed, seeded, dirEntries, pc, target, sv,
                  seen, migrations, ran, trace, branch, result, calls, args,
                  handle, failed,
                  cleared, txn, inserting, modelDoc >>

\* a client inserts a document under the schema id
DirectInsert ==
  /\ SchemaVersionsName \in collections
  /\ \E entity \in ClientEntities :
       LET outcome == RepoInsert(row, EntityToDoc(entity)) IN
         /\ row' = outcome.stored
         /\ lookup' = [op |-> "insert", id |-> SchemaVersionId,
                       object |-> EntityToDoc(entity),
                       result |-> outcome.result]
  /\ UNCHANGED << collections, indexed, seeded, dirEntries, pc, target, sv,
                  seen, migrations, ran, trace, branch, result, calls, args,
                  handle, failed,
                  cleared, txn, inserting, modelDoc >>

\* one process calling _ensureSchema and a client of the repository
InitRepo == InitWith({Fresh, Legacy, Bootstrapped(<<1, 0, 0>>)}, SomeListings)

NextRepo ==
  \/ Call(Solo)
  \/ Step(Solo)
  \/ DirectFindById
  \/ DirectGetById
  \/ DirectUpsert
  \/ DirectInsert

SpecRepo == InitRepo /\ [][NextRepo]_vars

\* the stuck lock of a call that failed in a script is cleared by hand: the
\* stored row is written back with locked false and its semver as persisted
ManualClear(p) ==
  /\ pc[p] = "threw"
  /\ result[p] = Threw("MigrationError")
  /\ Truthy(FindById(row).locked)
  /\ row' = Upsert(row, WithLocked(FindById(row), False))
  /\ cleared' = [host |-> p, calls |-> calls[p], target |-> target[p],
                 migrations |-> migrations[p], ran |-> ran[p],
                 semver |-> FindById(row).semver]
  /\ UNCHANGED << collections, indexed, seeded, dirEntries, pc, target, sv,
                  seen, migrations, ran, trace, branch, result, calls, args,
                  lookup, handle, failed, txn, inserting, modelDoc >>

\* one process calling _ensureSchema, and an operator who clears the lock a
\* failed call has left
InitRecover == InitWith({Fresh, Bootstrapped(<<1, 0, 0>>)}, AllListings)

NextRecover == Call(Solo) \/ Step(Solo) \/ ManualClear(Solo)

SpecRecover == InitRecover /\ [][NextRecover]_vars

(***************************************************************************)
(* MongoRepository._transactionallyExecute                                 *)
(***************************************************************************)
\* what the function handed to _transactionallyExecute does in the end
FnOutcomes == {"resolves", "rejects"}

\* _transactionallyExecute(fn, options) is called, lines 419-427
TransactionallyExecute ==
  /\ txn.pc \in {"idle", "resolved", "rejected"}
  /\ txn.calls < MaxCalls
  /\ \E outcome \in FnOutcomes :
       txn' = [pc |-> "startSession", session |-> "undefined",
               transaction |-> "none", ended |-> 0, fn |-> outcome,
               thrown |-> FALSE, calls |-> txn.calls + 1]
  /\ UNCHANGED << row, collections, indexed, seeded, dirEntries, pc, target,
                  sv, seen, migrations, ran, trace, branch, result, calls,
                  args, lookup, handle, failed, cleared, inserting, modelDoc >>

\* line 430: session = this._client.startSession(); when it throws, session
\* stays undefined and control passes to the finally block
StartSession ==
  /\ txn.pc = "startSession"
  /\ \/ txn' = [txn EXCEPT !.pc = "withTransaction", !.session = "active"]
     \/ txn' = [txn EXCEPT !.pc = "finally", !.thrown = TRUE]
  /\ UNCHANGED << row, collections, indexed, seeded, dirEntries, pc, target,
                  sv, seen, migrations, ran, trace, branch, result, calls,
                  args, lookup, handle, failed, cleared, inserting, modelDoc >>

\* line 431: session.withTransaction(fn, options) starts the transaction,
\* calls fn and hands back a promise; the return statement holds that promise
\* without awaiting it and control passes to the finally block
WithTransaction ==
  /\ txn.pc = "withTransaction"
  /\ txn' = [txn EXCEPT !.pc = "finally", !.transaction = "inProgress"]
  /\ UNCHANGED << row, collections, indexed, seeded, dirEntries, pc, target,
                  sv, seen, migrations, ran, trace, branch, result, calls,
                  args, lookup, handle, failed, cleared, inserting, modelDoc >>

\* lines 432-434: if (session) await session.endSession(); then the error of
\* line 430 is rethrown, or the call waits for the promise of line 431
EndSession ==
  /\ txn.pc = "finally"
  /\ txn' = [txn EXCEPT !.pc = IF txn.thrown THEN "rejected" ELSE "settling",
                        !.session = IF @ = "undefined" THEN @ ELSE "ended",
                        !.ended = IF txn.session = "undefined" THEN @ ELSE @ + 1]
  /\ UNCHANGED << row, collections, indexed, seeded, dirEntries, pc, target,
                  sv, seen, migrations, ran, trace, branch, result, calls,
                  args, lookup, handle, failed, cleared, inserting, modelDoc >>

\* the promise line 431 returned settles: fn has resolved or rejected and the
\* transaction, on a session that has been ended, is committed or aborted
Settle ==
  /\ txn.pc = "settling"
  /\ \E outcome \in IF txn.fn = "resolves" THEN {"committed", "aborted"}
                    ELSE {"aborted"} :
       txn' = [txn EXCEPT !.pc = IF outcome = "committed" THEN "resolved"
                                 ELSE "rejected",
                          !.transaction = outcome]
  /\ UNCHANGED << row, collections, indexed, seeded, dirEntries, pc, target,
                  sv, seen, migrations, ran, trace, branch, result, calls,
                  args, lookup, handle, failed, cleared, inserting, modelDoc >>

(***************************************************************************)
(* MongooseRepository.insert                                               *)
(***************************************************************************)
\* the entities handed to insert
ModelEntities == [_id : ModelIds, value : {"a", "undefined"}]

\* _toMongoDocument on a flat entity: the keys with an undefined value are
\* left out
ToMongoDocument(it) ==
  [k \in {f \in DOMAIN it : it[f] # "undefined"} |-> it[k]]

\* _toDocument
ToDocument(entity) == ToMongoDocument(entity)

\* this._model.findById(id).exec(), line 94
ModelFindById(docs, id) == IF id \in DOMAIN docs THEN docs[id] ELSE Null

\* this._model.findByIdAndUpdate(id, document, { upsert: true, overwrite:
\* true }).exec(), lines 71-80: the document under id is replaced, or created
FindByIdAndUpdate(docs, id, document) == [docs EXCEPT ![id] = document]

\* insert(entity, options) is called, line 64
InsertCall(p) ==
  /\ inserting[p].pc \in {"idle", "resolved", "rejected"}
  /\ inserting[p].calls < MaxCalls
  /\ \E entity \in ModelEntities :
       inserting' = [inserting EXCEPT
                       ![p] = [pc |-> "findById", entity |-> entity,
                               error |-> Null, calls |-> @.calls + 1]]
  /\ UNCHANGED << row, collections, indexed, seeded, dirEntries, pc, target,
                  sv, seen, migrations, ran, trace, branch, result, calls,
                  args, lookup, handle, failed, cleared, txn, modelDoc >>

\* line 65: if (await this.findById(entity.id)) throw new ObjectExistsError
InsertFindById(p) ==
  /\ inserting[p].pc = "findById"
  /\ inserting' =
       [inserting EXCEPT
          ![p] = IF ModelFindById(modelDoc, inserting[p].entity._id) # Null
                 THEN [@ EXCEPT !.pc = "rejected", !.error = "ObjectExistsError"]
                 ELSE [@ EXCEPT !.pc = "upsert"]]
  /\ UNCHANGED << row, collections, indexed, seeded, dirEntries, pc, target,
                  sv, seen, migrations, ran, trace, branch, result, calls,
                  args, lookup, handle, failed, cleared, txn, modelDoc >>

\* line 66: return this.upsert(entity, options), lines 69-81
InsertUpsert(p) ==
  /\ inserting[p].pc = "upsert"
  /\ modelDoc' = FindByIdAndUpdate(modelDoc, inserting[p].entity._id,
                                   ToDocument(inserting[p].entity))
  /\ inserting' = [inserting EXCEPT ![p].pc = "resolved"]
  /\ UNCHANGED << row, collections, indexed, seeded, dirEntries, pc, target,
                  sv, seen, migrations, ran, trace, branch, result, calls,
                  args, lookup, handle, failed, cleared, txn >>

\* the operations of MongooseRepository.js with no part in _ensureSchema: a
\* caller of _transactionallyExecute and two processes calling insert
InitMongoose == InitWith({Fresh}, {<< >>})

NextMongoose ==
  \/ TransactionallyExecute
  \/ StartSession
  \/ WithTransaction
  \/ EndSession
  \/ Settle
  \/ \E p \in Procs : InsertCall(p) \/ InsertFindById(p) \/ InsertUpsert(p)

SpecMongoose == InitMongoose /\ [][NextMongoose]_vars

(***************************************************************************)
(* Vocabulary of the properties                                            *)
(***************************************************************************)
\* semantic-version precedence of the versions in play, lowest first
Precedence ==
  << <<1, 0, 0, 1>>, <<1, 0, 0>>, <<1, 0, 1, 1>>, <<1, 0, 1, 5>>, <<1, 0, 1>>,
     <<1, 0, 2>>, <<2, 0, 0>> >>

Rank(v) == CHOOSE i \in 1..Len(Precedence) : Precedence[i] = v

\* the stored document carries a lock token
LockHeld(doc) ==
  /\ doc # Null
  /\ "_locked" \in DOMAIN doc
  /\ doc["_locked"].kind = "token"

\* the schemaVersion entity carries a lock token
EntityLocked(entity) == entity # Null /\ entity.locked.kind = "token"

\* p has persisted its lock token and has not yet persisted the release
Holding(p) ==
  /\ pc[p] \in {"collections", "createCollection", "migrate", "ensureIndexes",
                "ensureSeedData", "upsertUnlocked"}
  /\ trace[p] # <<>>
  /\ trace[p][1] = "lock"

\* p returns a handle in this step
Returns(p) == pc[p] \notin Quiescent /\ pc'[p] = "done"

\* the step changes nothing in the database
StoreUnchanged == UNCHANGED << row, collections, indexed, seeded >>

(***************************************************************************)
(* C1  Wait correctness: a call that reads the row while another process   *)
(* holds the lock does not return before the lock is cleared, and no       *)
(* process is still between its lock acquisition and its release when the  *)
(* call returns.                                                           *)
(***************************************************************************)
C1_WaitCorrectness ==
  [][\A b \in Procs :
       (Returns(b) /\ branch'[b] \in {"current", "wait"})
         => /\ ~LockHeld(row')
            /\ \A a \in Procs \ {b} : ~Holding(a)']_vars

(***************************************************************************)
(* C2  Migrate-phase mutual exclusion, as claimed: at most one coordinator *)
(* of the migrate branch is between lock acquisition and lock release.     *)
(***************************************************************************)
C2_MutualExclusion ==
  Cardinality({p \in Procs : branch[p] = "migrate" /\ Holding(p)}) <= 1

(***************************************************************************)
(* C2 amended: while the stored row carries a lock token no coordinator    *)
(* enters the migrate branch or moves to acquire the lock, and a           *)
(* coordinator that reads such a row with semver below its target waits,   *)
(* writing nothing.                                                        *)
(***************************************************************************)
C2_LockedRowKeepsCompetitorsOut ==
  [][LockHeld(row) =>
       \A p \in Procs :
         /\ branch'[p] = "migrate" => branch[p] = "migrate"
         /\ pc'[p] = "upsertLocked" => pc[p] = "upsertLocked"
         /\ (pc[p] = "findById" /\ pc'[p] # "findById"
               /\ Rank(row["_semver"]) < Rank(target[p]))
              => (pc'[p] = "delay" /\ branch'[p] = "wait" /\ StoreUnchanged)]_vars

\* a competitor that found the row locked is waiting while the holder migrates
C2_Witness ==
  \E p, q \in Procs :
    /\ p # q
    /\ branch[p] = "migrate" /\ Holding(p) /\ pc[p] = "migrate" /\ ran[p] # <<>>
    /\ branch[q] = "wait" /\ pc[q] = "delay"
    /\ LockHeld(row)

C4_NoOpFastPath ==
  [][\A p \in Procs :
       (/\ pc[p] = "findById" /\ pc'[p] # "findById"
        /\ row # Null
        /\ Rank(row["_semver"]) >= Rank(target[p])
        /\ ~LockHeld(row))
         => /\ pc'[p] = "done"
            /\ result'[p] = Returned(Name)
            /\ StoreUnchanged
            /\ ran'[p] = <<>>
            /\ trace'[p] = <<>>]_vars

\* a call has returned through the no-op branch on an unlocked current row
C4_Witness ==
  \E p \in Procs :
    /\ pc[p] = "done" /\ branch[p] = "current"
    /\ ~EntityLocked(seen[p])
    /\ trace[p] = <<>>
    /\ row # Null /\ Rank(row["_semver"]) >= Rank(target[p])

(***************************************************************************)
(* C5  Pending-script selection, as claimed: the scripts a migrate call    *)
(* has executed when it returns are exactly the directories with a valid   *)
(* semver tag t, stored semver < t <= targetVersion.                       *)
(***************************************************************************)
Range(s) == {s[i] : i \in DOMAIN s}

TagsBetween(low, high) ==
  { dirEntries[i].name :
      i \in {j \in DOMAIN dirEntries :
               /\ dirEntries[j].isDirectory
               /\ Len(dirEntries[j].name) >= 3
               /\ Rank(low) < Rank(dirEntries[j].name)
               /\ Rank(dirEntries[j].name) <= Rank(high)} }

C5_PendingSelection ==
  \A p \in Procs :
    (pc[p] = "done" /\ branch[p] = "migrate")
      => Range(ran[p]) = TagsBetween(seen[p].semver, target[p])

(***************************************************************************)
(* C6  Script ordering: the scripts of a call are invoked one per step in  *)
(* the order of the sorted list, which is strictly ascending in semver     *)
(* precedence whatever the order of the directory listing; a pre-release   *)
(* comes before its release.                                               *)
(***************************************************************************)
C6_ScriptOrdering ==
  \A p \in Procs :
    /\ \A i, j \in DOMAIN ran[p] : i < j => Rank(ran[p][i]) < Rank(ran[p][j])
    /\ Len(ran[p]) <= Len(migrations[p])
    /\ ran[p] = SubSeq(migrations[p], 1, Len(ran[p]))
    /\ Len(SelectSeq(trace[p], LAMBDA e : e = "script")) = Len(ran[p])
    /\ pc[p] \in {"ensureIndexes", "ensureSeedData", "upsertUnlocked"}
         => ran[p] = migrations[p]

\* the directory lists a release before its pre-release and both have run
C6_Witness ==
  \E p \in Procs :
    /\ dirEntries = << Dir(<<1, 0, 1>>), Dir(<<1, 0, 1, 1>>) >>
    /\ ran[p] = << <<1, 0, 1, 1>>, <<1, 0, 1>> >>
    /\ pc[p] = "done"

(***************************************************************************)
(* C7  Range exclusion: no call invokes a script whose tag is above its    *)
(* targetVersion, nor one whose tag is at or below the semver it read.     *)
(***************************************************************************)
C7_RangeExclusion ==
  \A p \in Procs :
    \A i \in DOMAIN ran[p] :
      /\ Rank(ran[p][i]) <= Rank(target[p])
      /\ Rank(ran[p][i]) > Rank(seen[p].semver)

\* a script has run although the directory also holds a tag out of range
C7_Witness ==
  \E p \in Procs :
    /\ pc[p] = "done" /\ ran[p] # <<>>
    /\ \E i \in DOMAIN dirEntries :
         /\ dirEntries[i].isDirectory
         /\ dirEntries[i].name \in {<<2, 0, 0>>, <<1, 0, 0>>, <<1, 0, 0, 1>>}

(***************************************************************************)
(* C8  Idempotence: of two calls that do not overlap, made with the same   *)
(* targetVersion on a fresh store, both return the named collection; the   *)
(* row then has semver = targetVersion and an empty lock, and no step of   *)
(* the second call changes the database.                                   *)
(***************************************************************************)
C8_Idempotence ==
  /\ [](\A p, q \in Procs :
          (/\ p # q
           /\ calls[p] = 1 /\ calls[q] = 1
           /\ pc[p] = "done" /\ pc[q] = "done"
           /\ target[p] = target[q])
            => /\ result[p] = Returned(Name)
               /\ result[q] = result[p]
               /\ {branch[p], branch[q]} = {"bootstrap", "current"}
               /\ row # Null
               /\ row["_semver"] = target[p]
               /\ ~LockHeld(row)
               /\ Name \in collections
               /\ indexed = 1 /\ seeded = 1)
  /\ [][\A p, q \in Procs :
          (/\ p # q
           /\ calls[p] = 1 /\ calls[q] = 1
           /\ pc[q] = "done" /\ branch[q] = "bootstrap"
           /\ target[p] = target[q]
           /\ pc[p] \notin Quiescent)
            => StoreUnchanged]_vars

\* the second of two such calls has returned
C8_Witness ==
  \E p, q \in Procs :
    /\ p # q
    /\ calls[p] = 1 /\ calls[q] = 1
    /\ pc[p] = "done" /\ pc[q] = "done"
    /\ target[p] = target[q]
    /\ branch[q] = "bootstrap" /\ branch[p] = "current"

(***************************************************************************)
(* C9  Monotonicity: over calls that do not overlap, whatever their        *)
(* targets, the row is never removed and no step lowers its semver.        *)
(***************************************************************************)
C9_Monotonicity ==
  [][row # Null =>
       /\ row' # Null
       /\ Rank(row'["_semver"]) >= Rank(row["_semver"])]_vars

\* a later call with a higher target has raised the stored semver
C9_Witness ==
  \E p \in Procs :
    /\ pc[p] = "done" /\ branch[p] = "migrate"
    /\ row # Null
    /\ Rank(row["_semver"]) > Rank(seen[p].semver)

(***************************************************************************)
(* C10  Migration script failure: when a script throws, the call ends with *)
(* that error, runs no further script, applies neither indexFn nor seedFn  *)
(* and does not release: the row keeps the lock token the call wrote.      *)
(***************************************************************************)
FailedInScript(p) ==
  pc[p] = "threw" /\ result[p] = Threw("MigrationError")

C10_ScriptFailure ==
  /\ [](\A p \in Procs :
          FailedInScript(p)
            => /\ LockHeld(row)
               /\ row["_locked"].host = p
               /\ row["_locked"].version = target[p]
               /\ trace[p][1] = "lock"
               /\ trace[p][Len(trace[p])] = "script"
               /\ \A i \in DOMAIN trace[p] :
                    trace[p][i] \notin {"index", "seed", "unlock"}
               /\ ran[p] # <<>>)
  /\ [][\A p \in Procs :
          FailedInScript(p)
            => \/ calls'[p] = calls[p] + 1
               \/ /\ pc'[p] = "threw"
                  /\ ran'[p] = ran[p]
                  /\ trace'[p] = trace[p]]_vars

\* the first of two pending scripts has thrown
C10_Witness ==
  \E p \in Procs :
    /\ FailedInScript(p)
    /\ Len(ran[p]) = 1
    /\ Len(migrations[p]) = 2

(***************************************************************************)
(* C11  Unbounded wait: a call that read the row with semver below its     *)
(* target and a lock token stays in the wait loop, writing nothing; it     *)
(* leaves the loop only by returning the collection in a step that reads   *)
(* the row without a lock token, so while the token stays (its holder      *)
(* having failed in a script) the call neither returns nor raises.         *)
(***************************************************************************)
C11_UnboundedWait ==
  /\ [](\A p \in Procs :
          branch[p] = "wait"
            => /\ pc[p] \in {"delay", "done"}
               /\ trace[p] = <<>>
               /\ EntityLocked(seen[p])
               /\ Rank(seen[p].semver) < Rank(target[p]))
  /\ [][\A p \in Procs :
          pc[p] = "delay"
            => /\ LockHeld(row) => pc'[p] = "delay"
               /\ pc'[p] # "delay"
                    => /\ pc'[p] = "done"
                       /\ result'[p] = Returned(Name)
                       /\ row # Null /\ ~LockHeld(row)
                       /\ sv'[p].semver = row["_semver"]
                       /\ ~EntityLocked(sv'[p])
                       /\ StoreUnchanged
               /\ sv'[p] # sv[p]
                    => (row # Null /\ sv'[p].semver = row["_semver"])]_vars

\* a call waits on a token whose holder has failed in a script
C11_Witness ==
  \E p, q \in Procs :
    /\ p # q
    /\ pc[p] = "delay" /\ branch[p] = "wait"
    /\ FailedInScript(q)
    /\ LockHeld(row) /\ row["_locked"].host = q

(***************************************************************************)
(* C12  Bootstrap onto a pre-existing resource: a call that finds no row   *)
(* while the named collection exists does not create it; it applies        *)
(* indexFn and then seedFn to the collection that is there, and when it    *)
(* returns the row has semver = targetVersion and no lock token.           *)
(***************************************************************************)
C12_BootstrapOntoExisting ==
  /\ [][\A p \in Procs :
          (/\ pc[p] = "collections" /\ pc'[p] # "collections"
           /\ Name \in collections)
            => /\ pc'[p] = "ensureIndexes"
               /\ trace'[p] = <<"lock">>
               /\ StoreUnchanged]_vars
  /\ [][\A p \in Procs :
          (branch[p] = "bootstrap" /\ trace[p] = <<"lock">> /\ pc[p] = "ensureIndexes")
            => \/ UNCHANGED << pc, trace >>
               \/ /\ indexed' = indexed + 1 /\ seeded' = seeded
                  /\ collections' = collections /\ Name \in collections
                  /\ trace'[p] = <<"lock", "index">>]_vars
  /\ [][\A p \in Procs :
          (branch[p] = "bootstrap" /\ trace[p] = <<"lock", "index">>)
            => \/ UNCHANGED << pc, trace >>
               \/ /\ seeded' = seeded + 1 /\ indexed' = indexed
                  /\ collections' = collections /\ Name \in collections
                  /\ trace'[p] = <<"lock", "index", "seed">>]_vars
  /\ [][\A p \in Procs :
          (/\ Returns(p) /\ branch[p] = "bootstrap"
           /\ "create" \notin Range(trace[p]))
            => /\ trace'[p] = <<"lock", "index", "seed", "unlock">>
               /\ result'[p] = Returned(Name)
               /\ row' # Null
               /\ row'["_semver"] = target[p]
               /\ ~LockHeld(row')]_vars

\* a first call has bootstrapped onto the collection that was there
C12_Witness ==
  \E p \in Procs :
    /\ branch[p] = "bootstrap" /\ pc[p] = "done"
    /\ seen[p] = Null
    /\ trace[p] = <<"lock", "index", "seed", "unlock">>
    /\ indexed = 1 /\ seeded = 1
    /\ row # Null /\ row["_semver"] = target[p] /\ ~LockHeld(row)

(***************************************************************************)
(* C13  Bootstrap step order: a bootstrap that no other call overlaps      *)
(* first persists the row {semver = targetVersion, lock = its token}, then *)
(* creates the named collection if it is absent, then applies indexFn,     *)
(* then seedFn, and only then persists the lock empty and returns; from    *)
(* its first write up to its last the stored row carries its token.        *)
(***************************************************************************)
BootstrapOrder(created) ==
  IF created THEN <<"lock", "create", "index", "seed", "unlock">>
  ELSE <<"lock", "index", "seed", "unlock">>

IsPrefix(s, t) == Len(s) <= Len(t) /\ s = SubSeq(t, 1, Len(s))

C13_BootstrapStepOrder ==
  /\ [](\A p \in Procs :
          branch[p] = "bootstrap"
            => /\ \E created \in BOOLEAN : IsPrefix(trace[p], BootstrapOrder(created))
               /\ pc[p] # "threw"
               /\ pc[p] = "done" <=> (trace[p] # <<>> /\ trace[p][Len(trace[p])] = "unlock")
               /\ (trace[p] # <<>> /\ pc[p] # "done")
                    => /\ row = [_semver |-> target[p],
                                 _locked |-> [kind |-> "token", name |-> PkgName,
                                              version |-> target[p], host |-> p]]
                       /\ Holding(p)
               /\ ("index" \in Range(trace[p]) \/ pc[p] = "ensureIndexes")
                    => Name \in collections)
  /\ [][\A p \in Procs :
          branch[p] = "bootstrap"
            => /\ (pc[p] = "upsertLocked" /\ pc'[p] # "upsertLocked")
                    => (row = Null /\ LockHeld(row') /\ trace'[p] = <<"lock">>)
               /\ "create" \in Range(trace'[p]) \ Range(trace[p])
                    => (Name \notin collections /\ Name \in collections')
               /\ (pc[p] = "createCollection" \/ "create" \in Range(trace[p]))
                    => IsPrefix(trace'[p], BootstrapOrder(TRUE))
               /\ Returns(p)
                    => /\ trace'[p] \in {BootstrapOrder(TRUE), BootstrapOrder(FALSE)}
                       /\ row' = [_semver |-> target[p], _locked |-> False]]_vars

\* a bootstrap has created and indexed the collection and still holds its
\* token in the stored row
C13_Witness ==
  \E p \in Procs :
    /\ branch[p] = "bootstrap" /\ pc[p] = "ensureSeedData"
    /\ trace[p] = <<"lock", "create", "index">>
    /\ LockHeld(row) /\ row["_locked"].host = p
    /\ row["_semver"] = target[p]

(***************************************************************************)
(* C14  Racing bootstraps both succeed: when two calls with the same       *)
(* targetVersion have both read the row as absent and both have ended,     *)
(* both have returned the collection without error, and the row has        *)
(* semver = targetVersion and no lock token.                               *)
(***************************************************************************)
C14_RacingBootstraps ==
  \A p, q \in Procs :
    (/\ p # q
     /\ branch[p] = "bootstrap" /\ branch[q] = "bootstrap"
     /\ seen[p] = Null /\ seen[q] = Null
     /\ target[p] = target[q]
     /\ pc[p] \in Quiescent /\ pc[q] \in Quiescent)
      => /\ pc[p] = "done" /\ pc[q] = "done"
         /\ result[p] = Returned(Name) /\ result[q] = Returned(Name)
         /\ row # Null
         /\ row["_semver"] = target[p]
         /\ ~LockHeld(row)

(***************************************************************************)
(* C15  Seeded and indexed exactly once, as claimed: once the calls made   *)
(* with one targetVersion on a fresh store, overlapping or not, have       *)
(* ended and one has returned, indexFn and seedFn have each been applied   *)
(* exactly once.                                                           *)
(***************************************************************************)
Callers == {p \in Procs : calls[p] >= 1}

OneCallEachSameTarget ==
  /\ \A p \in Procs : calls[p] <= 1
  /\ \A p, q \in Callers : target[p] = target[q]

Applied(event) == {p \in Procs : event \in Range(trace[p])}

C15_ExactlyOnce ==
  (/\ OneCallEachSameTarget
   /\ \A p \in Procs : pc[p] \in Quiescent
   /\ \E p \in Procs : pc[p] = "done")
    => (indexed = 1 /\ seeded = 1)

(***************************************************************************)
(* C15 amended: over calls made with one targetVersion on a fresh store,   *)
(* indexFn and seedFn are applied once by each call that read the row as   *)
(* absent and by no other call: exactly once when a single call            *)
(* bootstraps, once per call when overlapping calls both bootstrap.        *)
(***************************************************************************)
C15_OncePerBootstrap ==
  OneCallEachSameTarget
    => /\ indexed = Cardinality(Applied("index"))
       /\ seeded = Cardinality(Applied("seed"))
       /\ \A p \in Applied("index") \cup Applied("seed") :
            /\ branch[p] = "bootstrap" /\ seen[p] = Null
            /\ Len(SelectSeq(trace[p], LAMBDA e : e = "index")) = 1
            /\ Len(SelectSeq(trace[p], LAMBDA e : e = "seed")) <= 1
       /\ \A p \in Procs :
            (pc[p] = "done" /\ branch[p] = "bootstrap")
              => p \in Applied("index") \cap Applied("seed")
       /\ (/\ \A p \in Procs : pc[p] \in Quiescent
           /\ \E p \in Procs : pc[p] = "done"
           /\ Cardinality({p \in Procs : branch[p] = "bootstrap"}) = 1)
            => (indexed = 1 /\ seeded = 1)

\* two overlapping calls have both bootstrapped and both returned
C15_Witness ==
  /\ OneCallEachSameTarget
  /\ \A p \in Procs : pc[p] = "done" /\ branch[p] = "bootstrap"
  /\ indexed = 2 /\ seeded = 2

(***************************************************************************)
(* C16  Argument validation: a call given no db, no name or no schema      *)
(* document id fails with MissingRequiredArgumentError in its first step,  *)
(* before any read or write: that step leaves the database as it was, and  *)
(* the call takes no further step.                                         *)
(***************************************************************************)
ArgumentMissing(p) ==
  ~args[p].db \/ ~args[p].name \/ ~args[p].schemaVersionId

C16_ArgumentValidation ==
  /\ [][\A p \in Procs :
          calls'[p] # calls[p]
            => IF ArgumentMissing(p)'
               THEN /\ pc'[p] = "threw"
                    /\ result'[p] = Threw("MissingRequiredArgumentError")
                    /\ StoreUnchanged
               ELSE /\ pc'[p] = "ensureSchema"
                    /\ result'[p] = NoResult]_vars
  /\ [](\A p \in Procs :
          (calls[p] >= 1 /\ ArgumentMissing(p))
            => /\ pc[p] = "threw"
               /\ result[p] = Threw("MissingRequiredArgumentError")
               /\ branch[p] = "none"
               /\ seen[p] = Null
               /\ trace[p] = <<>>)
  /\ [](\A p \in Procs :
          result[p] = Threw("MissingRequiredArgumentError") => ArgumentMissing(p))

\* a call without a schema document id has failed on a store that holds a row
C16_Witness ==
  \E p \in Procs :
    /\ args[p] = [db |-> TRUE, name |-> TRUE, schemaVersionId |-> FALSE]
    /\ pc[p] = "threw"
    /\ result[p] = Threw("MissingRequiredArgumentError")
    /\ row # Null

(***************************************************************************)
(* C17  NotFound confined to direct lookups: getById fails with            *)
(* ObjectNotFoundError exactly when no row is stored under the id and      *)
(* otherwise gives the row; findById gives null for a missing row; a call  *)
(* of _ensureSchema that finds no row bootstraps and never ends with       *)
(* ObjectNotFoundError.                                                    *)
(***************************************************************************)
StoredUnder(id) == id = SchemaVersionId /\ lookup.stored # Null

C17_NotFoundConfined ==
  /\ lookup.op = "getById"
       => IF StoredUnder(lookup.id)
          THEN /\ lookup.result.semver = lookup.stored["_semver"]
               /\ EntityLocked(lookup.result) <=> LockHeld(lookup.stored)
          ELSE lookup.result = Threw("ObjectNotFoundError")
  /\ lookup.op = "findById"
       => IF StoredUnder(lookup.id)
          THEN /\ lookup.result.semver = lookup.stored["_semver"]
               /\ EntityLocked(lookup.result) <=> LockHeld(lookup.stored)
          ELSE lookup.result = Null
  /\ \A p \in Procs :
       /\ result[p] # Threw("ObjectNotFoundError")
       /\ (seen[p] = Null /\ branch[p] # "none")
            => (branch[p] = "bootstrap" /\ pc[p] # "threw")

\* getById has failed on an empty store, on which _ensureSchema has since
\* bootstrapped
C17_Witness ==
  /\ lookup.op = "getById" /\ lookup.id = SchemaVersionId
  /\ lookup.stored = Null
  /\ lookup.result = Threw("ObjectNotFoundError")
  /\ \E p \in Procs : pc[p] = "done" /\ branch[p] = "bootstrap" /\ seen[p] = Null

(***************************************************************************)
(* C18  Persisted version after migrate, as claimed: when a call that ran  *)
(* scripts releases the lock, the row gets the semver the scripts left on  *)
(* the shared schemaVersion, and targetVersion if no script set it.        *)
(***************************************************************************)
ReleasesAfterScripts(p) ==
  /\ Returns(p)
  /\ branch[p] = "migrate"
  /\ ran[p] # <<>>

C18_PersistedVersion ==
  [][\A p \in Procs :
       ReleasesAfterScripts(p)
         => /\ row'["_semver"] = sv[p].semver
            /\ sv[p].semver = seen[p].semver => row'["_semver"] = target[p]]_vars

(***************************************************************************)
(* C18 amended: when a call that ran scripts releases the lock, the row    *)
(* gets the semver the scripts left on the shared schemaVersion, which is  *)
(* the tag a script set or, if no script set it, the semver the call read  *)
(* from the row; the release itself never sets targetVersion.              *)
(***************************************************************************)
C18_PersistedVersionAsLeft ==
  [][\A p \in Procs :
       ReleasesAfterScripts(p)
         => /\ row'["_semver"] = sv[p].semver
            /\ sv[p].semver \in {seen[p].semver} \cup Range(ran[p])
            /\ sv[p].semver = seen[p].semver
                 => (row'["_semver"] = seen[p].semver
                     /\ Rank(row'["_semver"]) < Rank(target[p]))
            /\ ~LockHeld(row')]_vars

\* a call whose scripts set no semver has released, leaving the row below
\* its target
C18_Witness ==
  \E p \in Procs :
    /\ pc[p] = "done" /\ branch[p] = "migrate" /\ ran[p] # <<>>
    /\ sv[p].semver = seen[p].semver
    /\ row # Null /\ row["_semver"] = seen[p].semver
    /\ Rank(row["_semver"]) < Rank(target[p])
    /\ ~LockHeld(row)

(***************************************************************************)
(* C19  Stale row with no pending scripts: a call that reads the row with  *)
(* semver below its target and no lock token, and finds no script pending, *)
(* never writes a lock token; it applies indexFn and then seedFn, returns  *)
(* the collection by plain lookup and leaves the stored semver as it was   *)
(* before the call.                                                        *)
(***************************************************************************)
StaleNothingPending(p) ==
  /\ branch[p] = "migrate"
  /\ migrations[p] = <<>>

C19_StaleNoPending ==
  /\ [](\A p \in Procs :
          StaleNothingPending(p)
            => /\ Rank(seen[p].semver) < Rank(target[p])
               /\ ~EntityLocked(seen[p])
               /\ ran[p] = <<>>
               /\ IsPrefix(trace[p], <<"index", "seed", "unlock">>)
               /\ pc[p] \in {"ensureIndexes", "ensureSeedData", "upsertUnlocked",
                              "done"}
               /\ row # Null
               /\ ~LockHeld(row)
               /\ row["_semver"] = seen[p].semver
               /\ pc[p] = "done"
                    => /\ trace[p] = <<"index", "seed", "unlock">>
                       /\ result[p] = Returned(Name))
  /\ [][\A p \in Procs :
          (StaleNothingPending(p) /\ trace'[p] # trace[p] /\ calls'[p] = calls[p])
            => /\ collections' = collections
               /\ trace[p] = <<>>
                    => (indexed' = indexed + 1 /\ seeded' = seeded /\ row' = row)
               /\ trace[p] = <<"index">>
                    => (indexed' = indexed /\ seeded' = seeded + 1 /\ row' = row)
               /\ trace[p] = <<"index", "seed">>
                    => /\ indexed' = indexed /\ seeded' = seeded
                       /\ row'["_semver"] = row["_semver"]
                       /\ Returns(p)]_vars

\* such a call has returned although the directory holds scripts, none of
\* them pending
C19_Witness ==
  \E p \in Procs :
    /\ StaleNothingPending(p) /\ pc[p] = "done"
    /\ \E i \in DOMAIN dirEntries : dirEntries[i].isDirectory
    /\ TagsBetween(seen[p].semver, target[p]) = {}
    /\ row["_semver"] = seen[p].semver
    /\ Rank(row["_semver"]) < Rank(target[p])

(***************************************************************************)
(* C20  Migrate step order: a call with at least one pending script, which *)
(* no other call overlaps, persists its lock token before the first        *)
(* script, applies indexFn and then seedFn only after the last script has  *)
(* completed, and persists the lock empty only after seedFn; the stored    *)
(* row carries its token throughout, and no token once it has returned.    *)
(***************************************************************************)
MigrateOrder(n) ==
  <<"lock">> \o [i \in 1..n |-> "script"] \o <<"index", "seed", "unlock">>

MigratesScripts(p) ==
  /\ branch[p] = "migrate"
  /\ migrations[p] # <<>>

C20_MigrateStepOrder ==
  /\ [](\A p \in Procs :
          MigratesScripts(p)
            => /\ IsPrefix(trace[p], MigrateOrder(Len(migrations[p])))
               /\ (trace[p] # <<>> /\ pc[p] # "done")
                    => (LockHeld(row) /\ row["_locked"].host = p)
               /\ pc[p] = "done" => trace[p] = MigrateOrder(Len(migrations[p]))
               /\ "index" \in Range(trace[p]) => ran[p] = migrations[p])
  /\ [][\A p \in Procs :
          MigratesScripts(p)
            => /\ ran'[p] # ran[p] /\ calls'[p] = calls[p]
                    => (LockHeld(row) /\ row["_locked"].host = p)
               /\ (pc[p] = "upsertLocked" /\ pc'[p] # "upsertLocked")
                    => (~LockHeld(row) /\ LockHeld(row') /\ ran[p] = <<>>)
               /\ Returns(p)
                    => /\ LockHeld(row) /\ ~LockHeld(row')
                       /\ trace[p] = SubSeq(trace'[p], 1, Len(trace[p]))
                       /\ trace[p][Len(trace[p])] = "seed"]_vars

\* both pending scripts have run and indexFn has been applied under the
\* call's token
C20_Witness ==
  \E p \in Procs :
    /\ MigratesScripts(p)
    /\ trace[p] = <<"lock", "script", "script", "index">>
    /\ pc[p] = "ensureSeedData"
    /\ LockHeld(row) /\ row["_locked"].host = p

(***************************************************************************)
(* C21  upsert persists the full row, last write wins, as claimed:         *)
(* whatever row is stored and whatever SchemaVersion a client upserts, be  *)
(* its lock a token, false or never set, the stored row afterwards has     *)
(* the semver and the lock of that SchemaVersion.                          *)
(***************************************************************************)
ClientStep(op) ==
  /\ lookup'.op = op
  /\ UNCHANGED << pc, sv, seen, ran, trace, branch, calls >>
  /\ lookup' # lookup \/ row' # row

StoredLock(doc) == IF "_locked" \in DOMAIN doc THEN doc["_locked"] ELSE Undefined

C21_UpsertFullRow ==
  [][ClientStep("upsert")
       => /\ row' # Null
          /\ row'["_semver"] = lookup'.entity.semver
          /\ StoredLock(row') = lookup'.entity.locked]_vars

(***************************************************************************)
(* C22  ensureSchema of the SchemaVersion repository is idempotent, as     *)
(* claimed: every call of it, also one whose existence check and create    *)
(* interleave with another call's, returns the schema_versions collection  *)
(* without error.                                                          *)
(***************************************************************************)
PastEnsureSchema(p) ==
  /\ calls[p] >= 1
  /\ args[p].db /\ args[p].name /\ args[p].schemaVersionId
  /\ pc[p] \notin {"ensureSchema", "createSchemaVersions"}

C22_EnsureSchemaIdempotent ==
  \A p \in Procs :
    PastEnsureSchema(p)
      => /\ SchemaVersionsName \in collections
         /\ ~(pc[p] = "threw" /\ branch[p] = "none")

(***************************************************************************)
(* C23  Unique key violation: _insert of a document under an _id that is   *)
(* already stored fails with UniqueKeyViolationError whose cause is the    *)
(* store's duplicate-key error, code 11000, and leaves the stored document *)
(* as it was; an insert under an _id not yet stored succeeds, and as the   *)
(* row is never removed, of the inserts made on one _id only the first     *)
(* can succeed.                                                            *)
(***************************************************************************)
C23_UniqueKeyViolation ==
  /\ [][ClientStep("insert")
          => IF row = Null
             THEN /\ row' = lookup'.object
                  /\ lookup'.result = lookup'.object
             ELSE /\ row' = row
                  /\ lookup'.result.kind = "threw"
                  /\ lookup'.result.error = "UniqueKeyViolationError"
                  /\ lookup'.result.cause.code = 11000]_vars
  /\ [][row # Null => row' # Null]_vars

\* an insert has been rejected on a store whose row came from a client and
\* differs from the rejected document
C23_Witness ==
  /\ lookup.op = "insert"
  /\ lookup.result = [kind |-> "threw", error |-> "UniqueKeyViolationError",
                      cause |-> [name |-> "MongoError", code |-> 11000]]
  /\ \A p \in Procs : calls[p] = 0
  /\ row # Null /\ row # lookup.object

(***************************************************************************)
(* C24  Lifetime monotonicity under concurrency, as claimed: whatever the  *)
(* interleaving of the calls, every write to the row leaves its semver at  *)
(* or above the value stored before the write.                             *)
(***************************************************************************)
C24_LifetimeMonotonicity ==
  [][(row # Null /\ row' # row)
       => /\ row' # Null
          /\ Rank(row["_semver"]) <= Rank(row'["_semver"])]_vars

(***************************************************************************)
(* C25  CURRENT requires an empty lock, as claimed: a call returns         *)
(* straight after reading the row only if the row read has semver >= its   *)
(* targetVersion and no lock token.                                        *)
(***************************************************************************)
C25_CurrentRequiresEmptyLock ==
  [][\A p \in Procs :
       (pc[p] = "findById" /\ pc'[p] = "done")
         => /\ row # Null
            /\ Rank(row["_semver"]) >= Rank(target[p])
            /\ ~LockHeld(row)]_vars

(***************************************************************************)
(* C26  Final handle, as claimed: in the migrate branch the handle given   *)
(* to indexFn and seedFn and returned is the value the last executed       *)
(* script returned, and a lookup of the named collection exactly when no   *)
(* script ran.                                                             *)
(***************************************************************************)
PastScripts(p) ==
  /\ branch[p] = "migrate"
  /\ pc[p] \in {"ensureIndexes", "ensureSeedData", "upsertUnlocked", "done"}

C27_Termination ==
  \A p \in Procs : (pc[p] \notin Quiescent) ~> (pc[p] = "done")

\* a call that had to wait for another call's lock has returned, and no
\* call has failed
C27_Witness ==
  \E p \in Procs :
    /\ branch[p] = "wait" /\ pc[p] = "done"
    /\ ~failed

(***************************************************************************)
(* C28  Quiescent lock state: whenever no call is in progress and no call  *)
(* has ended with an error, the stored row carries no lock token,          *)
(* whatever the interleaving of the calls before, scripts that persist the *)
(* shared schemaVersion with the token on it included.                     *)
(***************************************************************************)
AllQuiet == \A p \in Procs : pc[p] \in {"idle", "done"}

C28_QuiescentLockState ==
  (AllQuiet /\ ~failed /\ row # Null) => ~LockHeld(row)

\* two calls have both run scripts on the row they both read unlocked, one
\* of them persisting a semver with its token, and both have returned
C28_Witness ==
  /\ AllQuiet /\ ~failed
  /\ \A p \in Procs : branch[p] = "migrate" /\ ran[p] # <<>>
  /\ \E p \in Procs : sv[p].semver # seen[p].semver
  /\ \E p, q \in Procs : p # q /\ seen[p] = seen[q] /\ calls[p] = calls[q]
  /\ row # Null /\ ~LockHeld(row)

(***************************************************************************)
(* C29  Lock released only by its acquirer, as claimed: a call persists    *)
(* the lock empty only if it persisted its token earlier in the same call  *)
(* and the stored row still carries that token, so it never clears a       *)
(* token another call holds.                                               *)
(***************************************************************************)
Releases(p) ==
  /\ pc[p] = "upsertUnlocked"
  /\ pc'[p] # "upsertUnlocked"

C29_ReleasedOnlyByAcquirer ==
  [][\A p \in Procs :
       Releases(p)
         => /\ trace[p] # <<>>
            /\ trace[p][1] = "lock"
            /\ LockHeld(row)
            /\ row["_locked"].host = p]_vars

(***************************************************************************)
(* C30  Waiter is read-only: no step of a call that took the wait branch   *)
(* writes the row, creates a collection, runs a script or applies indexFn  *)
(* or seedFn, while it polls and when it returns; its first read of the    *)
(* row without a lock token returns a lookup of the named collection       *)
(* whatever the semver read.                                               *)
(***************************************************************************)
Waits(p) == branch[p] = "wait" /\ pc[p] = "delay"

C30_WaiterReadOnly ==
  /\ [][\A p \in Procs :
          (Waits(p) /\ (pc'[p] # pc[p] \/ sv'[p] # sv[p]) /\ calls'[p] = calls[p])
            => /\ StoreUnchanged
               /\ ran'[p] = <<>> /\ trace'[p] = <<>>
               /\ (row # Null /\ ~LockHeld(row))
                    => /\ pc'[p] = "done"
                       /\ result'[p] = Returned(Name)
                       /\ handle'[p] = [kind |-> "lookup", name |-> Name]]_vars
  /\ [](\A p \in Procs :
          branch[p] = "wait" => (ran[p] = <<>> /\ trace[p] = <<>>))

\* a waiter has returned on a row that is unlocked but still below its
\* target
C30_Witness ==
  \E p \in Procs :
    /\ branch[p] = "wait" /\ pc[p] = "done"
    /\ ~EntityLocked(sv[p])
    /\ Rank(sv[p].semver) < Rank(target[p])
    /\ row # Null /\ Rank(row["_semver"]) < Rank(target[p])
(***************************************************************************)
(* C31  Transaction scope: _transactionallyExecute never has the session   *)
(* ended while the transaction it started for fn is still in progress, and *)
(* a call that has finished has ended the session exactly once if it       *)
(* started one, and not at all if it started none.                         *)
(***************************************************************************)
C31_TransactionScope ==
  /\ txn.transaction = "inProgress" => txn.session # "ended"
  /\ txn.pc \in {"resolved", "rejected"}
       => txn.ended = IF txn.session = "undefined" THEN 0 ELSE 1

(***************************************************************************)
(* C32  insert never overwrites: an insert that finds a document under the *)
(* entity's id fails with ObjectExistsError, no step of an insert replaces *)
(* a document the model already holds, and of the insert calls in flight   *)
(* together for one id at most one succeeds.                               *)
(***************************************************************************)
Succeeded(p, id) ==
  inserting[p].pc = "resolved" /\ inserting[p].entity._id = id

C32_InsertNeverOverwrites ==
  [][/\ \A id \in ModelIds :
          /\ modelDoc[id] # Null => modelDoc'[id] = modelDoc[id]
          /\ \A p, q \in Procs :
               Succeeded(p, id)' /\ Succeeded(q, id)' => p = q
     /\ \A p \in Procs :
          /\ inserting[p].pc = "findById"
          /\ inserting'[p].pc # "findById"
          /\ modelDoc[inserting[p].entity._id] # Null
          => /\ inserting'[p].pc = "rejected"
             /\ inserting'[p].error = "ObjectExistsError"
             /\ modelDoc' = modelDoc]_vars

(***************************************************************************)
(* C33  Crash-recovery rerun: once the lock a call left when a script      *)
(* threw has been cleared by hand, semver left as persisted, the next call *)
(* with the same targetVersion takes the migrate branch, selects in        *)
(* ascending order every script of the failed run whose tag is greater     *)
(* than the persisted semver, those that had completed without a semver    *)
(* bump included, and executes them in that order: all of them when it     *)
(* returns.                                                                *)
(***************************************************************************)
Rerunning(p) ==
  /\ cleared # Null
  /\ cleared.host = p
  /\ calls[p] = cleared.calls + 1
  /\ target[p] = cleared.target
  /\ branch[p] # "none"

AbovePersisted(tags) ==
  LET Above(tag) == Rank(tag) > Rank(cleared.semver)
  IN  SelectSeq(tags, Above)

C33_CrashRecoveryRerun ==
  \A p \in Procs :
    Rerunning(p)
      => /\ branch[p] = "migrate"
         /\ seen[p].semver = cleared.semver
         /\ migrations[p] = AbovePersisted(cleared.migrations)
         /\ \A i, j \in DOMAIN migrations[p] :
              i < j => Rank(migrations[p][i]) < Rank(migrations[p][j])
         /\ IsPrefix(ran[p], migrations[p])
         /\ pc[p] = "done" => ran[p] = migrations[p]

\* the rerun has returned after executing again a script that had completed
\* in the failed run without a semver bump, and the script that had thrown
C33_Witness ==
  /\ Rerunning(Solo)
  /\ pc[Solo] = "done"
  /\ Len(cleared.ran) = 2
  /\ cleared.semver = <<1, 0, 0>>
  /\ ran[Solo] = cleared.ran

====
